---------------------------- MODULE Spec2Model ----------------------------
(***************************************************************************)
(* A model of the PhoneValidator component of src/Projecttt.js: its three  *)
(* pieces of React state (phoneNumber, phoneInfo, isAnalyzing), the 300 ms *)
(* debounce timer armed by the useEffect on phoneNumber, and the 800 ms    *)
(* analysis timers armed by analyzePhoneNumber.                            *)
(*                                                                         *)
(* Time is explicit.  Every timer carries the milliseconds left until it   *)
(* is due; Tick advances all of them by Quantum, the greatest common       *)
(* divisor of the two delays, and cannot move past a timer that is due.    *)
(* Timers that are due at the same instant may run in either order.        *)
(*                                                                         *)
(* The cleanup and the body of the useEffect are passive effects.  When    *)
(* React runs them is the build's choice of React and of root: in the task *)
(* of the change (SetPhoneNumber), or in a later task of their own         *)
(* (SetPhoneNumberDeferred, then FlushPassiveEffects), before which time   *)
(* may pass and timer callbacks may run.  The model has both.  A pending   *)
(* effect also runs, before the render, in any task that renders: a later  *)
(* change, or a timer callback whose setter changes a state.               *)
(*                                                                         *)
(* isValidPhoneNumber and parsePhoneNumber belong to libphonenumber-js, a  *)
(* dependency whose code is not part of the repository.  They are modelled *)
(* by what they do on the texts of the model: extraction of the digits,    *)
(* the leading '+' that an international number needs when no default     *)
(* country is given, and the rows of the numbering-plan metadata that the  *)
(* texts exercise.                                                         *)
(***************************************************************************)
EXTENDS Integers, Sequences, FiniteSets, TLC

VARIABLES
    inputs,          \* the texts the user can put into the input field
    phoneNumber,     \* useState('')            line 21
    phoneInfo,       \* useState(null)          line 22
    isAnalyzing,     \* useState(false)         line 23
    debounceTimers,  \* pending timers of line 147: records [id, number, rem]
    effectTimer,     \* the id the effect's cleanup closure holds (line 151)
    effectPending,   \* phoneNumber is rendered, its effect has not run yet
    analysisTimers,  \* pending timers of line 111, oldest first: [number, rem]
    uncaught,        \* an exception escaped a timer callback
    infoFrom,        \* the text from which the value of phoneInfo was computed
    replaced         \* while effectPending: the text the change replaced, and
                     \* the ms its debounce timer had left at the change

vars == << inputs, phoneNumber, phoneInfo, isAnalyzing, debounceTimers,
           effectTimer, effectPending, analysisTimers, uncaught, infoFrom,
           replaced >>

-----------------------------------------------------------------------------
(* Program constants and the model's bounds.                               *)

DEBOUNCE_MS == 300

ANALYSIS_MS == 800

\* The user moves between at most MaxTexts distinct texts, the empty one
\* among them.
MaxTexts == 3

\* Math.random() is drawn from the grid {0/RandomGrain, ..., (RandomGrain-1)/RandomGrain}.
RandomGrain == 4

RECURSIVE GCD(_, _)
GCD(a, b) == IF b = 0 THEN a ELSE GCD(b, a % b)

Quantum == GCD(DEBOUNCE_MS, ANALYSIS_MS)

Min(a, b) == IF a < b THEN a ELSE b

-----------------------------------------------------------------------------
(* JavaScript values.                                                      *)

Undefined == "undefined"

\* phoneInfo is null or an object: the empty sequence, or the object alone.
Null == << >>

Some(obj) == << obj >>

Range(seq) == { seq[i] : i \in 1..Len(seq) }

-----------------------------------------------------------------------------
(* Text.                                                                   *)

(* What String.prototype.trim strips: the WhiteSpace and LineTerminator     *)
(* code points of ECMAScript.  These are U+0009, U+000B, U+000C, U+0020,    *)
(* U+00A0, U+FEFF and the category Zs (U+1680, U+2000 to U+200A, U+202F,    *)
(* U+205F, U+3000), and U+000A, U+000D, U+2028, U+2029.  A TLA+ string      *)
(* cannot hold U+2000 to U+200A, U+2028, U+2029, U+202F, U+205F or U+3000   *)
(* (the lexer rejects them), so no text of this model contains one; every   *)
(* other code point of the list is below.                                   *)
CharacterTabulation == "\t"    \* U+0009
LineFeed == "\n"               \* U+000A
LineTabulation == ""          \* U+000B
FormFeed == "\f"               \* U+000C
CarriageReturn == "\r"         \* U+000D
Space == " "                   \* U+0020
NoBreakSpace == " "            \* U+00A0
OghamSpaceMark == " "          \* U+1680
ZeroWidthNoBreakSpace == "﻿"   \* U+FEFF

WhiteSpace ==
    { CharacterTabulation, LineFeed, LineTabulation, FormFeed, CarriageReturn,
      Space, NoBreakSpace, OghamSpaceMark, ZeroWidthNoBreakSpace }

DigitChars == { "0", "1", "2", "3", "4", "5", "6", "7", "8", "9" }

Rest(s) == SubSeq(s, 2, Len(s))

RECURSIVE TrimStart(_)
TrimStart(s) ==
    IF s = "" THEN ""
    ELSE IF Head(s) \in WhiteSpace THEN TrimStart(Rest(s)) ELSE s

RECURSIVE TrimEnd(_)
TrimEnd(s) ==
    IF s = "" THEN ""
    ELSE IF SubSeq(s, Len(s), Len(s)) \in WhiteSpace
         THEN TrimEnd(SubSeq(s, 1, Len(s) - 1))
         ELSE s

\* String.prototype.trim
Trim(s) == TrimEnd(TrimStart(s))

\* !number.trim()                                              line 104
IsBlank(number) == Trim(number) = ""

RECURSIVE ExtractDigits(_)
ExtractDigits(s) ==
    IF s = "" THEN ""
    ELSE IF Head(s) \in DigitChars
         THEN Head(s) \o ExtractDigits(Rest(s))
         ELSE ExtractDigits(Rest(s))

\* The text from its first '+' or digit on, as the library extracts a number.
RECURSIVE FromFirstSignificant(_)
FromFirstSignificant(s) ==
    IF s = "" THEN ""
    ELSE IF Head(s) \in DigitChars \cup { "+" }
         THEN s
         ELSE FromFirstSignificant(Rest(s))

HasLeadingPlus(s) ==
    LET t == FromFirstSignificant(s) IN t # "" /\ Head(t) = "+"

-----------------------------------------------------------------------------
(* The component's tables.                                                 *)

countryNames ==
    ("US" :> "United States") @@ ("CA" :> "Canada") @@
    ("GB" :> "United Kingdom") @@ ("AU" :> "Australia") @@
    ("DE" :> "Germany") @@ ("FR" :> "France") @@ ("IT" :> "Italy") @@
    ("ES" :> "Spain") @@ ("BR" :> "Brazil") @@ ("IN" :> "India") @@
    ("CN" :> "China") @@ ("JP" :> "Japan") @@ ("RU" :> "Russia") @@
    ("MX" :> "Mexico") @@ ("AR" :> "Argentina") @@ ("CL" :> "Chile") @@
    ("CO" :> "Colombia") @@ ("PE" :> "Peru") @@ ("VE" :> "Venezuela") @@
    ("ZA" :> "South Africa") @@ ("EG" :> "Egypt") @@ ("NG" :> "Nigeria") @@
    ("KE" :> "Kenya") @@ ("MA" :> "Morocco") @@ ("TN" :> "Tunisia") @@
    ("GH" :> "Ghana") @@ ("TR" :> "Turkey") @@ ("SA" :> "Saudi Arabia") @@
    ("AE" :> "United Arab Emirates") @@ ("IL" :> "Israel") @@
    ("KW" :> "Kuwait") @@ ("QA" :> "Qatar") @@ ("BH" :> "Bahrain") @@
    ("OM" :> "Oman") @@ ("JO" :> "Jordan") @@ ("LB" :> "Lebanon") @@
    ("SY" :> "Syria") @@ ("IQ" :> "Iraq") @@ ("IR" :> "Iran") @@
    ("AF" :> "Afghanistan") @@ ("PK" :> "Pakistan") @@
    ("BD" :> "Bangladesh") @@ ("LK" :> "Sri Lanka") @@ ("NP" :> "Nepal") @@
    ("BT" :> "Bhutan") @@ ("MV" :> "Maldives") @@ ("TH" :> "Thailand") @@
    ("VN" :> "Vietnam") @@ ("KH" :> "Cambodia") @@ ("LA" :> "Laos") @@
    ("MM" :> "Myanmar") @@ ("MY" :> "Malaysia") @@ ("SG" :> "Singapore") @@
    ("ID" :> "Indonesia") @@ ("PH" :> "Philippines") @@
    ("KR" :> "South Korea") @@ ("TW" :> "Taiwan") @@ ("HK" :> "Hong Kong") @@
    ("MO" :> "Macau") @@ ("MN" :> "Mongolia") @@ ("KZ" :> "Kazakhstan") @@
    ("UZ" :> "Uzbekistan") @@ ("TM" :> "Turkmenistan") @@
    ("KG" :> "Kyrgyzstan") @@ ("TJ" :> "Tajikistan")

carrierInfo ==
    ("US" :> << "Verizon", "AT&T", "T-Mobile", "Sprint" >>) @@
    ("IN" :> << "Airtel", "Jio", "Vi (Vodafone Idea)", "BSNL" >>) @@
    ("GB" :> << "EE", "O2", "Three", "Vodafone" >>) @@
    ("DE" :> << "Deutsche Telekom", "Vodafone", "Telefónica" >>) @@
    ("FR" :> << "Orange", "SFR", "Bouygues", "Free" >>) @@
    ("CA" :> << "Rogers", "Bell", "Telus" >>) @@
    ("AU" :> << "Telstra", "Optus", "Vodafone" >>)

-----------------------------------------------------------------------------
(* libphonenumber-js, as the component uses it: no default country.        *)

\* Stands for any text on which the library throws instead of answering.
ThrowingText == "<a text on which the library throws>"

LibraryThrows(text) == text = ThrowingText

\* The rows of the numbering-plan metadata that the texts of the model
\* exercise, keyed by the digits of the number in E.164 form.
NumberingPlan ==
    ("919876543210" :>
        [ country |-> "IN", countryCallingCode |-> "91",
          nationalNumber |-> "9876543210", groups |-> << 5, 5 >> ]) @@
    ("81312345678" :>
        [ country |-> "JP", countryCallingCode |-> "81",
          nationalNumber |-> "312345678", groups |-> << 1, 4, 4 >> ])

CallingCodes == { "1", "81", "91" }

\* The digits of an international number start with a registered calling code.
ResolvesCallingCode(text) ==
    /\ HasLeadingPlus(text)
    /\ \E n \in 1..3 :
          /\ n <= Len(ExtractDigits(text))
          /\ SubSeq(ExtractDigits(text), 1, n) \in CallingCodes

\* isValidPhoneNumber(number)                                  line 113
isValidPhoneNumber(text) ==
    /\ HasLeadingPlus(text)
    /\ ExtractDigits(text) \in DOMAIN NumberingPlan

\* parsePhoneNumber(number)                                    line 116
parsePhoneNumber(text) == NumberingPlan[ExtractDigits(text)]

RECURSIVE Grouped(_, _)
Grouped(digits, groups) ==
    IF Len(groups) = 0 THEN digits
    ELSE IF Len(groups) = 1 THEN SubSeq(digits, 1, Head(groups))
    ELSE SubSeq(digits, 1, Head(groups)) \o " " \o
         Grouped(SubSeq(digits, Head(groups) + 1, Len(digits)), Tail(groups))

\* parsed.formatInternational()                                line 128
formatInternational(parsed) ==
    "+" \o parsed.countryCallingCode \o " " \o
    Grouped(parsed.nationalNumber, parsed.groups)

-----------------------------------------------------------------------------
(* analyzePhoneNumber's timer callback, lines 111-143.                     *)

\* countryNames[country] || country                            line 118
CountryName(country) ==
    IF country = Undefined THEN Undefined
    ELSE IF country \in DOMAIN countryNames THEN countryNames[country]
    ELSE country

\* A lookup that falls back to the first list of carrierInfo instead of [].
CarriersWithDefault(country) ==
    IF country # Undefined /\ country \in DOMAIN carrierInfo
    THEN carrierInfo[country]
    ELSE carrierInfo["US"]

\* carrierInfo[country] or []                                  line 119
Carriers(country) ==
    IF country # Undefined /\ country \in DOMAIN carrierInfo
    THEN carrierInfo[country]
    ELSE << >>

\* carriers[Math.floor(Math.random() * carriers.length)]       line 120
\* with Math.random() = rnd / RandomGrain
RandomCarrier(carriers, rnd) ==
    IF Len(carriers) > 0
    THEN carriers[((rnd * Len(carriers)) \div RandomGrain) + 1]
    ELSE Undefined

\* The object of lines 122-130.
ValidInfo(parsed, rnd) ==
    [ isValid |-> TRUE,
      country |-> CountryName(parsed.country),
      countryCode |-> parsed.country,
      region |-> CountryName(parsed.country),
      nationalNumber |-> parsed.nationalNumber,
      internationalFormat |-> formatInternational(parsed),
      carrier |-> RandomCarrier(Carriers(parsed.country), rnd) ]

\* The object of lines 132-134 and 138-140.
InvalidInfo == [ isValid |-> FALSE ]

\* What the try block stores when the library answers: lines 113-135.
Analysis(number, rnd) ==
    IF isValidPhoneNumber(number)
    THEN ValidInfo(parsePhoneNumber(number), rnd)
    ELSE InvalidInfo

\* A text of white space only, with code points beyond space, tab and the
\* ASCII line ends at both of its ends.
BlankText == FormFeed \o Space \o LineTabulation \o NoBreakSpace

Texts ==
    { "", BlankText, "abc", "12345", "+1 000-000-0000",
      "+91 98765 43210", "+81 3-1234-5678" }

AllTexts == Texts \cup { ThrowingText }

\* Analysis and IsBlank on every text of the model, computed once.
AnalysisOf ==
    [ t \in AllTexts |-> [ rnd \in 0..(RandomGrain - 1) |-> Analysis(t, rnd) ] ]

Blank == [ t \in AllTexts |-> IsBlank(t) ]

\* A callback without the try/catch of lines 112 and 136-141: the exception
\* leaves the callback before line 142.
TimerCallbackNoCatch(number, rnd, cur) ==
    IF LibraryThrows(number)
    THEN [ cur EXCEPT !.uncaught = TRUE ]
    ELSE [ cur EXCEPT !.phoneInfo = Some(AnalysisOf[number][rnd]),
                      !.infoFrom = number, !.isAnalyzing = FALSE ]

\* The callback of lines 111-143, on the state
\* cur = [phoneInfo, isAnalyzing, uncaught, infoFrom].
TimerCallback(number, rnd, cur) ==
    IF LibraryThrows(number)
    THEN \* catch (error), lines 136-141, then line 142
         [ cur EXCEPT !.phoneInfo = Some(InvalidInfo), !.infoFrom = number,
                      !.isAnalyzing = FALSE ]
    ELSE \* lines 113-135, then line 142
         [ cur EXCEPT !.phoneInfo = Some(AnalysisOf[number][rnd]),
                      !.infoFrom = number, !.isAnalyzing = FALSE ]

-----------------------------------------------------------------------------
(* The state machine.                                                      *)

\* The sets of texts of one session.
Sessions(texts) ==
    { S \in SUBSET texts :
        "" \in S /\ Cardinality(S) = Min(MaxTexts, Cardinality(texts)) }

\* No change of phoneNumber is waiting for its effect.
NothingReplaced == [ number |-> "", left |-> 0 ]

\* The component after its first render and its first effect.
InitWith(texts) ==
    /\ inputs \in Sessions(texts)
    /\ phoneNumber = ""
    /\ phoneInfo = Null
    /\ isAnalyzing = FALSE
    /\ debounceTimers = { [ id |-> 1, number |-> "", rem |-> DEBOUNCE_MS ] }
    /\ effectTimer = 1
    /\ effectPending = FALSE
    /\ analysisTimers = << >>
    /\ uncaught = FALSE
    /\ infoFrom = ""
    /\ replaced = NothingReplaced

Init == InitWith(Texts)

InitLibraryThrows == InitWith(AllTexts)

\* return () => clearTimeout(debounceTimer)                    line 151
EffectCleanup(timers, id) == { t \in timers : t.id # id }

\* The id setTimeout returns: one that no pending timer has.
FreshId(timers) ==
    CHOOSE i \in 1..(Cardinality(timers) + 1) : \A t \in timers : t.id # i

\* The previous effect's cleanup and the effect of the render of v, run on
\* the given timers with the given cleanup closure: the timers and the
\* closure they leave.  Lines 147-151.
Effect(timers, closure, v) ==
    LET cleared == EffectCleanup(timers, closure)
        id == FreshId(cleared)
    IN [ timers |-> cleared \cup { [ id |-> id, number |-> v,
                                     rem |-> DEBOUNCE_MS ] },
         id |-> id ]

\* The timers and the cleanup closure once the pending effect, if there is
\* one, has run: React runs it before it renders the next update.
Flushed ==
    IF effectPending
    THEN Effect(debounceTimers, effectTimer, phoneNumber)
    ELSE [ timers |-> debounceTimers, id |-> effectTimer ]

\* The ms until the last of the given debounce timers is due; 0 when there
\* is none.
TimeLeft(timers) ==
    IF timers = { } THEN 0
    ELSE (CHOOSE t \in timers : \A u \in timers : u.rem <= t.rem).rem

\* onChange or an example button: setPhoneNumber(v) with a new value, the
\* re-render, the previous effect's cleanup and the effect, all in the task
\* of the change.  Lines 146-152.
SetPhoneNumber(v) ==
    /\ v # phoneNumber
    /\ phoneNumber' = v
    /\ LET effect == Effect(Flushed.timers, Flushed.id, v)
       IN debounceTimers' = effect.timers /\ effectTimer' = effect.id
    /\ effectPending' = FALSE
    /\ replaced' = NothingReplaced
    /\ UNCHANGED << inputs, phoneInfo, isAnalyzing, analysisTimers, uncaught,
                    infoFrom >>

\* onChange or an example button: setPhoneNumber(v) with a new value and the
\* re-render; the cleanup and the effect are left for a later task.
SetPhoneNumberDeferred(v) ==
    /\ v # phoneNumber
    /\ phoneNumber' = v
    /\ debounceTimers' = Flushed.timers
    /\ effectTimer' = Flushed.id
    /\ effectPending' = TRUE
    /\ replaced' = [ number |-> phoneNumber, left |-> TimeLeft(Flushed.timers) ]
    /\ UNCHANGED << inputs, phoneInfo, isAnalyzing, analysisTimers, uncaught,
                    infoFrom >>

\* The task that runs the pending cleanup and effect.  Lines 147-151.
FlushPassiveEffects ==
    /\ effectPending
    /\ debounceTimers' = Flushed.timers
    /\ effectTimer' = Flushed.id
    /\ effectPending' = FALSE
    /\ replaced' = NothingReplaced
    /\ UNCHANGED << inputs, phoneNumber, phoneInfo, isAnalyzing,
                    analysisTimers, uncaught, infoFrom >>

\* A timer callback has left the given debounce timers and has called a
\* state setter.  A setter whose value differs makes React render at once,
\* and React runs the pending effect, if there is one, before it renders;
\* a setter whose value is the same renders nothing.
AfterSetState(timers, differs) ==
    IF effectPending /\ differs
    THEN LET effect == Effect(timers, effectTimer, phoneNumber)
         IN /\ debounceTimers' = effect.timers
            /\ effectTimer' = effect.id
            /\ effectPending' = FALSE
            /\ replaced' = NothingReplaced
    ELSE /\ debounceTimers' = timers
         /\ UNCHANGED << effectTimer, effectPending, replaced >>

\* The debounce timer fires: analyzePhoneNumber(phoneNumber) of line 148,
\* that is lines 103-111.
DebounceFire ==
    \E t \in debounceTimers :
        /\ t.rem = 0
        /\ IF Blank[t.number]
           THEN /\ phoneInfo' = Null
                /\ infoFrom' = t.number
                /\ AfterSetState(debounceTimers \ { t }, phoneInfo # Null)
                /\ UNCHANGED << isAnalyzing, analysisTimers >>
           ELSE /\ isAnalyzing' = TRUE
                /\ AfterSetState(debounceTimers \ { t }, ~isAnalyzing)
                /\ analysisTimers' =
                      Append(analysisTimers,
                             [ number |-> t.number, rem |-> ANALYSIS_MS ])
                /\ UNCHANGED << phoneInfo, infoFrom >>
        /\ UNCHANGED << inputs, phoneNumber, uncaught >>

\* The oldest analysis timer fires: lines 111-143.  Every path through the
\* callback calls setPhoneInfo with a new object (lines 122, 132, 138).
AnalysisFire ==
    /\ analysisTimers # << >>
    /\ Head(analysisTimers).rem = 0
    /\ \E rnd \in 0..(RandomGrain - 1) :
          LET number == Head(analysisTimers).number
              cur == [ phoneInfo |-> phoneInfo, isAnalyzing |-> isAnalyzing,
                       uncaught |-> uncaught, infoFrom |-> infoFrom ]
              new == TimerCallback(number, rnd, cur)
          IN /\ phoneInfo' = new.phoneInfo
             /\ isAnalyzing' = new.isAnalyzing
             /\ uncaught' = new.uncaught
             /\ infoFrom' = new.infoFrom
    /\ AfterSetState(debounceTimers, TRUE)
    /\ analysisTimers' = Tail(analysisTimers)
    /\ UNCHANGED << inputs, phoneNumber >>

\* Quantum ms pass; no timer is overdue.  A pending effect does not hold
\* the clock: the timers run on while it waits.
Tick ==
    /\ debounceTimers # { } \/ analysisTimers # << >>
    /\ \A t \in debounceTimers : t.rem > 0
    /\ \A i \in 1..Len(analysisTimers) : analysisTimers[i].rem > 0
    /\ debounceTimers' =
          { [ t EXCEPT !.rem = t.rem - Quantum ] : t \in debounceTimers }
    /\ analysisTimers' =
          [ i \in 1..Len(analysisTimers) |->
              [ analysisTimers[i] EXCEPT !.rem = analysisTimers[i].rem - Quantum ] ]
    /\ UNCHANGED << inputs, phoneNumber, phoneInfo, isAnalyzing, effectTimer,
                    effectPending, uncaught, infoFrom, replaced >>

Next ==
    \/ \E v \in inputs : SetPhoneNumber(v)
    \/ \E v \in inputs : SetPhoneNumberDeferred(v)
    \/ FlushPassiveEffects
    \/ DebounceFire
    \/ AnalysisFire
    \/ Tick

Spec == Init /\ [][Next]_vars

SpecLibraryThrows == InitLibraryThrows /\ [][Next]_vars

-----------------------------------------------------------------------------
(* What the properties below read off a step or a state.                   *)

\* The step runs the callback of the oldest analysis timer.
AnalysisCompletes == Len(analysisTimers') < Len(analysisTimers)

\* The text that callback analyses.
Analysed == Head(analysisTimers).number

\* The step does nothing but run the pending cleanup and effect.
EffectAlone ==
    /\ effectPending /\ ~effectPending'
    /\ phoneNumber' = phoneNumber
    /\ phoneInfo' = phoneInfo
    /\ isAnalyzing' = isAnalyzing
    /\ analysisTimers' = analysisTimers

\* The debounce timers whose callback the step runs: those that are due and
\* are gone after the step, unless the step is a change of phoneNumber, the
\* effect alone or the callback of an analysis timer, whose cleanup has
\* cancelled them.
Expired ==
    { t \in debounceTimers :
        /\ phoneNumber' = phoneNumber
        /\ ~EffectAlone
        /\ ~AnalysisCompletes
        /\ t.rem = 0
        /\ t \notin debounceTimers' }

\* How the handler of the step ends.
Outcome ==
    IF uncaught' THEN "error"
    ELSE IF phoneInfo' = Null THEN "no result"
    ELSE IF phoneInfo'[1].isValid THEN "valid"
    ELSE "invalid"

\* A result is on display: line 237.
Displayed == phoneInfo # Null /\ ~isAnalyzing

HasDigit(s) == ExtractDigits(s) # ""

RECURSIVE HasPlus(_)
HasPlus(s) ==
    IF s = "" THEN FALSE ELSE Head(s) = "+" \/ HasPlus(Rest(s))

OnlyWhiteSpace(s) == \A i \in 1..Len(s) : SubSeq(s, i, i) \in WhiteSpace

NoDigitNoPlus(s) == ~HasDigit(s) /\ ~HasPlus(s)

HasIddPrefix(s) ==
    LET d == ExtractDigits(s)
    IN \/ Len(d) >= 2 /\ SubSeq(d, 1, 2) = "00"
       \/ Len(d) >= 3 /\ SubSeq(d, 1, 3) = "011"

\* Digits, but no leading '+' and no IDD prefix.
DigitsWithoutPrefix(s) == HasDigit(s) /\ ~HasLeadingPlus(s) /\ ~HasIddPrefix(s)

\* The library answers, and its answer is "not valid".
Rejects(s) == ~LibraryThrows(s) /\ ~isValidPhoneNumber(s)

\* The predicates above on every text of the model, computed once.
Facts ==
    [ t \in AllTexts |->
        [ onlyWhiteSpace |-> OnlyWhiteSpace(t),
          noDigitNoPlus |-> NoDigitNoPlus(t),
          digitsWithoutPrefix |-> DigitsWithoutPrefix(t),
          resolvesCallingCode |-> ResolvesCallingCode(t),
          rejects |-> Rejects(t),
          throws |-> LibraryThrows(t) ] ]

\* The calling code with which the digits of an international number start.
CallingCodeOf(s) ==
    LET d == ExtractDigits(s)
    IN CHOOSE c \in CallingCodes : Len(c) <= Len(d) /\ SubSeq(d, 1, Len(c)) = c

-----------------------------------------------------------------------------
(* C1.  Determinism: two analyses of the same text store identical        *)
(* results, field for field, the carrier included.  Stated on two analyses *)
(* in a row: when an analysis of a text completes while phoneInfo still    *)
(* holds the result of an earlier analysis of the same text, it stores     *)
(* that same result again.                                                 *)
C1_Determinism ==
    [][ (AnalysisCompletes /\ phoneInfo # Null /\ infoFrom = Analysed)
            => phoneInfo' = phoneInfo ]_vars

(* C2.  A merely invalid number never produces an error: when the analysis *)
(* of a text that the library rejects, or on which the library throws,     *)
(* completes, phoneInfo holds a result whose isValid is false, no          *)
(* exception has escaped the callback and isAnalyzing is false.            *)
C2_InvalidIsNotAnError ==
    [][ (AnalysisCompletes /\ (Facts[Analysed].rejects \/ Facts[Analysed].throws))
            => /\ Outcome = "invalid"
               /\ infoFrom' = Analysed
               /\ ~uncaught'
               /\ ~isAnalyzing' ]_vars

\* C2's case has happened: the result of a text on which the library throws.
C2_Witness ==
    /\ phoneInfo # Null
    /\ ~phoneInfo[1].isValid
    /\ infoFrom = ThrowingText
    /\ ~isAnalyzing
    /\ ~uncaught

(* C3.  A text with no digit and no '+'    *)
(* (empty, white space, or other characters only) ends in the hard error   *)
(* EmptyInputError: not in a result with isValid = false, and not in the   *)
(* absence of a result.                                                    *)
C3_EmptyInputError ==
    [][ /\ \A t \in Expired :
              (Facts[t.number].noDigitNoPlus /\ Facts[t.number].onlyWhiteSpace)
                  => Outcome = "error"
        /\ (AnalysisCompletes /\ Facts[Analysed].noDigitNoPlus)
              => Outcome = "error" ]_vars

(* C4.  A text with digits but no leading  *)
(* '+' and no IDD prefix ("12345") ends in the error AmbiguousRegionError, *)
(* not in a result with isValid = false.                                   *)
C4_AmbiguousRegionError ==
    [][ (AnalysisCompletes /\ Facts[Analysed].digitsWithoutPrefix)
            => Outcome = "error" ]_vars

(* C5.  When the text resolves to a        *)
(* calling code but matches no pattern, the result has isValid = false, a  *)
(* region "unknown", and still carries the resolved calling code.          *)
C5_UnknownRegionKeepsCallingCode ==
    [][ (AnalysisCompletes /\ Facts[Analysed].resolvesCallingCode
                           /\ Facts[Analysed].rejects)
            => /\ Outcome = "invalid"
               /\ \E f \in DOMAIN phoneInfo'[1] \cap { "region", "countryCode" } :
                     phoneInfo'[1][f] = "unknown"
               /\ \E f \in DOMAIN phoneInfo'[1] \ { "isValid" } :
                     phoneInfo'[1][f] = CallingCodeOf(Analysed) ]_vars

(* was computed from the current value of phoneNumber.                     *)
C7_SupersededIsDiscarded ==
    [][ (AnalysisCompletes /\ Displayed') => Analysed = phoneNumber' ]_vars

(* C8.  Clearing the input clears the result for good: when phoneNumber is *)
(* blank and every debounce timer and analysis timer has fired, phoneInfo  *)
(* is null and isAnalyzing is false.  While the effect of a change is      *)
(* pending, the debounce timer of that change is still to come.            *)
C8_ClearedForGood ==
    (/\ Blank[phoneNumber]
     /\ ~effectPending
     /\ debounceTimers = { }
     /\ analysisTimers = << >>)
        => (phoneInfo = Null /\ ~isAnalyzing)

(* C9.  isAnalyzing is true exactly when at least one analysis timer is    *)
(* pending.                                                                *)
C9_AnalyzingIffPending == isAnalyzing <=> (analysisTimers # << >>)

(* C10.  A result carries a carrier only if isValid is true and its        *)
(* countryCode has an entry in carrierInfo, and then the carrier is a      *)
(* member of carrierInfo[countryCode]; a result with isValid = false       *)
(* carries no country, countryCode, nationalNumber, internationalFormat or *)
(* carrier.                                                                *)
C10_CarrierFromTable ==
    phoneInfo # Null =>
        LET r == phoneInfo[1]
            carries(f) == f \in DOMAIN r /\ r[f] # Undefined
        IN /\ carries("carrier")
                => /\ r.isValid
                   /\ r.countryCode \in DOMAIN carrierInfo
                   /\ r.carrier \in Range(carrierInfo[r.countryCode])
           /\ ~r.isValid
                => \A f \in { "country", "countryCode", "nationalNumber",
                              "internationalFormat", "carrier" } : ~carries(f)

\* C10's case has happened: a valid result of a country that has an entry in
\* carrierInfo is stored, with a carrier.
C10_Witness ==
    /\ phoneInfo # Null
    /\ phoneInfo[1].isValid
    /\ phoneInfo[1].countryCode \in DOMAIN carrierInfo
    /\ phoneInfo[1].carrier # Undefined

=============================================================================
